---- MODULE Spec2Model ----
(***************************************************************************)
(* pyFlyDoc: the FlyDoc facade over three suds service proxies             *)
(* (src/pyflydoc/__init__.py).  The state is the proxies' option state     *)
(* (soapheaders, location), the last response the query proxy received,    *)
(* the facade's loginInfo and the position of every browse generator.      *)
(* The remote server is the environment: every response is drawn from a    *)
(* small set.  `issued` records the operation performed by the last step   *)
(* and the remote calls it issued, each with the soapheaders its proxy     *)
(* held when the call was made.                                            *)
(***************************************************************************)
EXTENDS Integers, Sequences, FiniteSets, TLC

VARIABLES soapheaders, location, loginInfo, last_received, gen, running, issued

vars == <<soapheaders, location, loginInfo, last_received, gen, running, issued>>

\* ------------------------------------------------------------------ bounds
MaxNItems == 2        \* largest nItems passed to browse
MaxTransports == 1    \* largest nTransports in one response (the page size is 1)
MaxCountedCalls == 2  \* a generator's remote calls are counted 0, 1, ..., this many or more
MaxVars == 2          \* most entries of submit's transportVars
MaxAttachments == 2   \* most entries of submit's transportAttachments
MaxContents == 2      \* most entries of submit's transportContents

\* ------------------------------------------------------------------ values
None == "None"
Services == {"sessionService", "submissionService", "queryService"}
\* Browse generators of one facade.  Spec consumes one generator at a time
\* (a new browse abandons the previous generator); SpecInterleaved consumes
\* two side by side.
Gens == {1, 2}
SessionIDs == {"s1", "s2"}
QueryIDs == {"q1", "q2"}
NoQueryHeader == "NoQueryHeader"   \* a response Header without a QueryHeaderValue child
Fault == "WebFault"
\* An optional argument: None is the empty tuple, the value v the tuple <<v>>.
Absent == <<>>
Some(v) == <<v>>
NItemsValues == {Absent} \cup {Some(n) : n \in 0..MaxNItems}

\* The suds default of options.soapheaders is the empty tuple, not a dict.
NoHeaders == <<>>

\* isinstance(headers, dict): a dict made by _addHeader is never empty.
IsDict(headers) == DOMAIN headers # {}

\* FlyDocService._addHeader: headers.update({headerName: headerValue}) on the
\* proxy's dict, or on a fresh dict when the option is not a dict yet.
_addHeader(headers, headerName, headerValue) ==
    LET h == IF IsDict(headers) THEN headers ELSE NoHeaders
    IN  [k \in DOMAIN h \cup {headerName} |->
            IF k = headerName THEN headerValue ELSE h[k]]

\* The headers a proxy sends with a call: a header attached by _addHeader goes
\* out with every later call of that proxy.
Carried(service) == soapheaders[service]

\* A remote call made through FlyDocService.__getattr__.
Call(service, op, arg) ==
    [service |-> service, op |-> op, soapheaders |-> Carried(service),
     arg |-> arg]

Issued(op, g, calls, raised) ==
    [op |-> op, gen |-> g, calls |-> calls, raised |-> raised, args |-> None]

\* ------------------------------------------------------------------ browse helpers
\* "if not reverse: QueryFirst else: QueryLast"
FirstOp(reverse) == IF ~reverse THEN "QueryFirst" ELSE "QueryLast"

\* "if not reverse: QueryNext else: QueryPrevious"
PageOp_AlwaysNext(reverse) == "QueryNext"

PageOp(reverse) == IF ~reverse THEN "QueryNext" ELSE "QueryPrevious"

\* while(not result.noMoreItems and (nItems is not None and totalNumber < nItems))
LoopCond_IgnoresNoMore(result, nItems, totalNumber) ==
    nItems # Absent /\ totalNumber < nItems[1]

LoopCond_Inclusive(result, nItems, totalNumber) ==
    ~result.noMoreItems /\ (nItems # Absent /\ totalNumber <= nItems[1])

LoopCond_NoneMeansAll(result, nItems, totalNumber) ==
    ~result.noMoreItems /\ (nItems = Absent \/ totalNumber < nItems[1])

LoopCond(result, nItems, totalNumber) ==
    ~result.noMoreItems /\ (nItems # Absent /\ totalNumber < nItems[1])

\* What the server may answer to a query call: the result body and the
\* QueryHeaderValue of the response Header (or none).
QueryResponses ==
    [nTransports : 0..MaxTransports, noMoreItems : BOOLEAN,
     queryID : QueryIDs \cup {NoQueryHeader}, fault : {FALSE}]

\* The call raises a WebFault instead of returning.
FaultResponse ==
    [nTransports |-> 0, noMoreItems |-> FALSE, queryID |-> NoQueryHeader, fault |-> TRUE]

NoResult == [nTransports |-> 0, noMoreItems |-> FALSE]

\* `yielded` counts the items a generator has yielded; it stops counting
\* one past the largest cap.
YieldedCap == MaxNItems + 1
CountYield(n) == IF n < YieldedCap THEN n + 1 ELSE n

\* `nCalls` counts the remote calls a generator has issued, up to MaxCountedCalls.
CountCall(n) == IF n < MaxCountedCalls THEN n + 1 ELSE n

IdleGen ==
    [pc |-> "Idle", nItems |-> Absent, reverse |-> FALSE, result |-> NoResult,
     totalNumber |-> 0, yielded |-> 0, firstQueryID |-> None, nCalls |-> 0]

\* ------------------------------------------------------------------ Init
Init ==
    /\ soapheaders = [s \in Services |-> NoHeaders]
    /\ location = [s \in Services |-> "wsdl"]
    /\ loginInfo = None
    /\ last_received = None
    /\ gen = [g \in Gens |-> IdleGen]
    /\ running = 0
    /\ issued = Issued("__init__", 0, <<>>, FALSE)

\* ------------------------------------------------------------------ login / logout
\* The three _addHeader calls that end FlyDoc.login.
LoginHeaders_SkipsQuery(sessionID) ==
    [s \in Services |->
        IF s = "queryService" THEN soapheaders[s]
        ELSE _addHeader(soapheaders[s], "SessionHeaderValue", [sessionID |-> sessionID])]

LoginHeaders(sessionID) ==
    [s \in Services |->
        _addHeader(soapheaders[s], "SessionHeaderValue", [sessionID |-> sessionID])]

\* login that goes on to attach the session header when Login faults, with
\* the sessionID of the loginInfo it holds.
login_AttachesOnFault ==
    /\ running = 0
    /\ \E bindings \in {"bound", Fault}, reply \in SessionIDs \cup {Fault} :
         LET c1 == Call("sessionService", "GetBindings", None)
             c2 == Call("sessionService", "Login", None)
         IN  IF bindings = Fault
             THEN /\ issued' = Issued("login", 0, <<c1>>, TRUE)
                  /\ UNCHANGED <<soapheaders, location, loginInfo>>
             ELSE /\ location' = [s \in Services |-> bindings]
                  /\ IF reply = Fault
                     THEN /\ issued' = Issued("login", 0, <<c1, c2>>, TRUE)
                          /\ soapheaders' = LoginHeaders(loginInfo)
                          /\ UNCHANGED loginInfo
                     ELSE /\ loginInfo' = reply
                          /\ soapheaders' = LoginHeaders(reply)
                          /\ issued' = Issued("login", 0, <<c1, c2>>, FALSE)
    /\ UNCHANGED <<last_received, gen, running>>

\* FlyDoc.login(username, password)
login ==
    /\ running = 0
    /\ \E bindings \in {"bound", Fault}, reply \in SessionIDs \cup {Fault} :
         LET c1 == Call("sessionService", "GetBindings", None)
             c2 == Call("sessionService", "Login", None)
         IN  IF bindings = Fault
             THEN /\ issued' = Issued("login", 0, <<c1>>, TRUE)
                  /\ UNCHANGED <<soapheaders, location, loginInfo>>
             ELSE /\ location' = [s \in Services |-> bindings]
                  /\ IF reply = Fault
                     THEN /\ issued' = Issued("login", 0, <<c1, c2>>, TRUE)
                          /\ UNCHANGED <<soapheaders, loginInfo>>
                     ELSE /\ loginInfo' = reply
                          /\ soapheaders' = LoginHeaders(reply)
                          /\ issued' = Issued("login", 0, <<c1, c2>>, FALSE)
    /\ UNCHANGED <<last_received, gen, running>>

\* FlyDoc.logout()
logout_ClearsHeaders ==
    /\ running = 0
    /\ \E reply \in {"ok", Fault} :
         issued' = Issued("logout", 0,
                          <<Call("sessionService", "Logout", None)>>,
                          reply = Fault)
    /\ soapheaders' = [s \in Services |-> NoHeaders]
    /\ UNCHANGED <<location, loginInfo, last_received, gen, running>>

logout ==
    /\ running = 0
    /\ \E reply \in {"ok", Fault} :
         issued' = Issued("logout", 0,
                          <<Call("sessionService", "Logout", None)>>,
                          reply = Fault)
    /\ UNCHANGED <<soapheaders, location, loginInfo, last_received, gen, running>>

\* ------------------------------------------------------------------ submit
\* The files on disk: a path is the tuple of its components; a path outside
\* the domain cannot be opened.
Files ==
    (<<"tmp", "doc.pdf">> :> <<37, 80, 68, 70>>) @@
    (<<"data", "a.txt">> :> <<104, 105>>)

CanOpen(path) == path \in DOMAIN Files

\* os.path.basename
basename(path) == IF Len(path) = 0 THEN "" ELSE path[Len(path)]

B64Alphabet ==
    << "A", "B", "C", "D", "E", "F", "G", "H", "I", "J", "K", "L", "M", "N", "O", "P",
       "Q", "R", "S", "T", "U", "V", "W", "X", "Y", "Z", "a", "b", "c", "d", "e", "f",
       "g", "h", "i", "j", "k", "l", "m", "n", "o", "p", "q", "r", "s", "t", "u", "v",
       "w", "x", "y", "z", "0", "1", "2", "3", "4", "5", "6", "7", "8", "9", "+", "/" >>

B64Char(sextet) == B64Alphabet[sextet + 1]

\* base64.b64encode of a byte string, as the tuple of its characters.
RECURSIVE b64encode(_)
b64encode(data) ==
    IF Len(data) = 0 THEN <<>>
    ELSE IF Len(data) = 1
    THEN LET n == data[1] * 65536
         IN  <<B64Char(n \div 262144), B64Char((n \div 4096) % 64), "=", "=">>
    ELSE IF Len(data) = 2
    THEN LET n == data[1] * 65536 + data[2] * 256
         IN  <<B64Char(n \div 262144), B64Char((n \div 4096) % 64),
               B64Char((n \div 64) % 64), "=">>
    ELSE LET n == data[1] * 65536 + data[2] * 256 + data[3]
         IN  <<B64Char(n \div 262144), B64Char((n \div 4096) % 64),
               B64Char((n \div 64) % 64), B64Char(n % 64)>>
             \o b64encode(SubSeq(data, 4, Len(data)))

\* FlyDocService._create(name, values): a new instance of the WSDL type with
\* the given fields set.
_create(name, values) == [wsdlType |-> name, values |-> values]

\* FlyDocSubmissionService._readFile(attachment), for a file that opens.
_readFile(attachment) ==
    _create("WSFile", [name |-> basename(attachment), mode |-> "MODE_INLINED",
                       content |-> b64encode(Files[attachment])])

\* FlyDocSubmissionService._createFile(name, data)
_createFile(name, data) ==
    _create("WSFile", [name |-> name, mode |-> "MODE_INLINED",
                       content |-> b64encode(data)])

\* transport.vars.Var after line 236: one Var per item of transportVars.
TransportVars_DropsLast(transportVars) ==
    [i \in 1..(Len(transportVars) - 1) |->
        _create("Var", [attribute |-> transportVars[i][1],
                        simpleValue |-> transportVars[i][2],
                        type |-> "TYPE_STRING"])]

TransportVars(transportVars) ==
    [i \in 1..Len(transportVars) |->
        _create("Var", [attribute |-> transportVars[i][1],
                        simpleValue |-> transportVars[i][2],
                        type |-> "TYPE_STRING"])]

\* transport.attachments.Attachment after lines 243-249: the files, then the
\* direct contents.
FileAttachments(transportAttachments) ==
    [i \in 1..Len(transportAttachments) |->
        _create("Attachment", [sourceAttachment |-> _readFile(transportAttachments[i])])]

ContentAttachments(transportContents) ==
    [i \in 1..Len(transportContents) |->
        _create("Attachment",
                [sourceAttachment |-> _createFile(transportContents[i].name,
                                                  transportContents[i].data)])]

TransportAttachments_ContentsFirst(transportAttachments, transportContents) ==
    ContentAttachments(transportContents) \o FileAttachments(transportAttachments)

TransportAttachments(transportAttachments, transportContents) ==
    FileAttachments(transportAttachments) \o ContentAttachments(transportContents)

\* "if x is None: x = []"
OrEmpty(x) == IF x = Absent THEN <<>> ELSE x[1]

\* submit that leaves out the files it cannot open and sends the rest.
submit_SkipsUnreadable(name, transportVars, transportAttachments, transportContents) ==
    /\ running = 0
    /\ \E reply \in {"ok", Fault} :
         LET transport ==
               _create("Transport",
                       [transportName |-> name,
                        vars |-> TransportVars(transportVars),
                        attachments |->
                            TransportAttachments(
                                SelectSeq(OrEmpty(transportAttachments), CanOpen),
                                OrEmpty(transportContents))])
         IN  issued' = [Issued("submit", 0,
                               <<Call("submissionService", "SubmitTransport",
                                      transport)>>,
                               reply = Fault) EXCEPT
                          !.args = [name |-> name, transportVars |-> transportVars,
                                    transportAttachments |-> transportAttachments,
                                    transportContents |-> transportContents]]
    /\ UNCHANGED <<soapheaders, location, loginInfo, last_received, gen, running>>

\* FlyDoc.submit(name, transportVars, transportAttachments, transportContents)
\* transportVars is the dict's items in iteration order.  `issued.args` keeps
\* the arguments of the call.
submit(name, transportVars, transportAttachments, transportContents) ==
    /\ running = 0
    /\ LET attachments == OrEmpty(transportAttachments)
           contents == OrEmpty(transportContents)
           args == [name |-> name, transportVars |-> transportVars,
                    transportAttachments |-> transportAttachments,
                    transportContents |-> transportContents]
       IN  IF \E i \in 1..Len(attachments) : ~CanOpen(attachments[i])
           THEN \* open() raises IOError before anything is sent
                issued' = [Issued("submit", 0, <<>>, TRUE) EXCEPT !.args = args]
           ELSE \E reply \in {"ok", Fault} :
                  LET transport ==
                        _create("Transport",
                                [transportName |-> name,
                                 vars |-> TransportVars(transportVars),
                                 attachments |->
                                     TransportAttachments(attachments, contents)])
                  IN  issued' = [Issued("submit", 0,
                                        <<Call("submissionService", "SubmitTransport",
                                               transport)>>,
                                        reply = Fault) EXCEPT !.args = args]
    /\ UNCHANGED <<soapheaders, location, loginInfo, last_received, gen, running>>

\* Arguments of submit.
VarItems == {"recipient", "subject", "sender"} \X {"x", "y"}
TransportVarsValues ==
    {tv \in UNION {[1..n -> VarItems] : n \in 0..MaxVars} :
        \A i, j \in DOMAIN tv : i # j => tv[i][1] # tv[j][1]}
Paths == DOMAIN Files \cup {<<"tmp", "missing.pdf">>}
AttachmentsValues ==
    {Absent} \cup {Some(ta) : ta \in UNION {[1..n -> Paths] : n \in 0..MaxAttachments}}
Contents == {[name |-> "note.txt", data |-> <<72>>], [name |-> "empty", data |-> <<>>]}
ContentsValues ==
    {Absent} \cup {Some(tc) : tc \in UNION {[1..n -> Contents] : n \in 0..MaxContents}}

\* ------------------------------------------------------------------ query service
\* One call on the query service outside browse: the response replaces the
\* proxy's last received message unless the call faults.
QueryCall(facadeOp, remoteOp) ==
    /\ running = 0
    /\ \E reply \in QueryIDs \cup {NoQueryHeader, Fault} :
         /\ issued' = Issued(facadeOp, 0,
                             <<Call("queryService", remoteOp, None)>>,
                             reply = Fault)
         /\ last_received' = IF reply = Fault THEN last_received ELSE reply
    /\ UNCHANGED <<soapheaders, location, loginInfo, gen, running>>

\* FlyDoc.browseAttachments(transportID, ...), consumed
browseAttachments == QueryCall("browseAttachments", "QueryAttachments")

\* FlyDoc.approve(identifier)
approve == QueryCall("approve", "Approve")

\* FlyDoc.cancel(identifier)
cancel == QueryCall("cancel", "Cancel")

\* ------------------------------------------------------------------ browse
\* FlyDoc.browse(nItems=..., reverse=...): calling a generator function only
\* creates the generator; its body runs on next().  The generator the caller
\* held in slot g before is abandoned.
browse(g, nItems, reverse) ==
    /\ running = 0
    /\ gen' = [gen EXCEPT ![g] = [IdleGen EXCEPT !.pc = "Start",
                                              !.nItems = nItems,
                                              !.reverse = reverse]]
    /\ issued' = Issued("browse", g, <<>>, FALSE)
    /\ UNCHANGED <<soapheaders, location, loginInfo, last_received, running>>

\* Lines 279-283 for generator record r, reading the query proxy's last
\* received message lr: the new record and the new query soapheaders.
\* getChild('QueryHeaderValue') is None when the Header has no such child, and
\* the generator dies of the AttributeError.
AttachQueryHeader(r, lr) ==
    IF lr \in QueryIDs
    THEN [r |-> [r EXCEPT !.pc = IF LoopCond(r.result, r.nItems, r.totalNumber)
                                 THEN "Paging" ELSE "Exhausted"],
          h |-> _addHeader(soapheaders["queryService"], "QueryHeaderValue",
                           [queryID |-> lr])]
    ELSE [r |-> [r EXCEPT !.pc = "Raised"], h |-> soapheaders["queryService"]]

\* The line-283 test alone, entered again after the yield of line 292.
Continue(r) ==
    [r EXCEPT !.pc = IF LoopCond(r.result, r.nItems, r.totalNumber)
                     THEN "Paging" ELSE "Exhausted"]

Commit(g, r, h) ==
    /\ gen' = [gen EXCEPT ![g] = r]
    /\ soapheaders' = [soapheaders EXCEPT !["queryService"] = h]
    /\ running' = IF r.pc = "Paging" THEN g ELSE 0

\* First next(): lines 259-277, and on to the loop test when nothing is yielded.
GenFirst(g) ==
    /\ running = 0
    /\ gen[g].pc = "Start"
    /\ \E reply \in QueryResponses \cup {FaultResponse} :
         LET c == Call("queryService", FirstOp(gen[g].reverse), None)
             r0 == [gen[g] EXCEPT !.nCalls = CountCall(@)]
         IN  /\ issued' = Issued("next", g, <<c>>, FALSE)
             /\ IF reply.fault
                THEN /\ Commit(g, [r0 EXCEPT !.pc = "Raised"], soapheaders["queryService"])
                     /\ UNCHANGED last_received
                ELSE LET r1 == [r0 EXCEPT
                                  !.result = [nTransports |-> reply.nTransports,
                                              noMoreItems |-> reply.noMoreItems],
                                  !.totalNumber = reply.nTransports,
                                  !.firstQueryID = reply.queryID]
                     IN  /\ last_received' = reply.queryID
                         /\ IF reply.nTransports > 0
                            THEN Commit(g, [r1 EXCEPT !.pc = "FirstFetched",
                                                      !.yielded = CountYield(@)],
                                        soapheaders["queryService"])
                            ELSE LET a == AttachQueryHeader(r1, reply.queryID)
                                 IN  Commit(g, a.r, a.h)
    /\ UNCHANGED <<location, loginInfo>>

\* next() on a generator suspended at a yield: after line 277 the header is
\* captured from whatever the query proxy received last; after line 292 the
\* loop test is evaluated again.
GenResume(g) ==
    /\ running = 0
    /\ gen[g].pc \in {"FirstFetched", "Yielded"}
    /\ IF gen[g].pc = "FirstFetched"
       THEN LET a == AttachQueryHeader(gen[g], last_received)
            IN  /\ Commit(g, a.r, a.h)
                /\ issued' = Issued("next", g, <<>>, a.r.pc = "Raised")
       ELSE /\ Commit(g, Continue(gen[g]), soapheaders["queryService"])
            /\ issued' = Issued("next", g, <<>>, FALSE)
    /\ UNCHANGED <<location, loginInfo, last_received>>

\* One iteration of the loop, lines 284-292.
GenPage(g) ==
    /\ running = g
    /\ gen[g].pc = "Paging"
    /\ \E reply \in QueryResponses \cup {FaultResponse} :
         LET c == Call("queryService", PageOp(gen[g].reverse), None)
             r0 == [gen[g] EXCEPT !.nCalls = CountCall(@)]
         IN  /\ issued' = Issued("next", g, <<c>>, FALSE)
             /\ IF reply.fault
                THEN /\ Commit(g, [r0 EXCEPT !.pc = "Raised"], soapheaders["queryService"])
                     /\ UNCHANGED last_received
                ELSE LET r1 == [r0 EXCEPT
                                  !.result = [nTransports |-> reply.nTransports,
                                              noMoreItems |-> reply.noMoreItems],
                                  !.totalNumber = @ + reply.nTransports]
                     IN  /\ last_received' = reply.queryID
                         /\ IF reply.nTransports > 0
                            THEN Commit(g, [r1 EXCEPT !.pc = "Yielded",
                                                      !.yielded = CountYield(@)],
                                        soapheaders["queryService"])
                            ELSE Commit(g, Continue(r1), soapheaders["queryService"])
    /\ UNCHANGED <<location, loginInfo>>

\* ------------------------------------------------------------------ specification
\* The example of the documentation: one variable, one attachment.
ExampleVars == <<<<"recipient", "x">>>>

\* Every operation of the facade, one browse generator consumed at a time.
Next ==
    \/ login
    \/ logout
    \/ \E ta \in {Absent, Some(<<<<"tmp", "doc.pdf">>>>), Some(<<<<"tmp", "missing.pdf">>>>)} :
         submit("Fax", ExampleVars, ta, Absent)
    \/ browseAttachments
    \/ approve
    \/ cancel
    \/ \E nItems \in NItemsValues, reverse \in BOOLEAN : browse(1, nItems, reverse)
    \/ GenFirst(1)
    \/ GenResume(1)
    \/ GenPage(1)

Spec == Init /\ [][Next]_vars

\* submit over all its arguments: the caller holds the arguments of the call
\* it is about to make in `issued.args`, and makes the call.
InitSubmit ==
    /\ soapheaders = [s \in Services |-> NoHeaders]
    /\ location = [s \in Services |-> "wsdl"]
    /\ loginInfo = None
    /\ last_received = None
    /\ gen = [g \in Gens |-> IdleGen]
    /\ running = 0
    /\ \E tv \in TransportVarsValues, ta \in AttachmentsValues, tc \in ContentsValues :
         issued = [Issued("__init__", 0, <<>>, FALSE) EXCEPT
                     !.args = [name |-> "Fax", transportVars |-> tv,
                               transportAttachments |-> ta, transportContents |-> tc]]

NextSubmit ==
    /\ issued.op = "__init__"
    /\ submit(issued.args.name, issued.args.transportVars,
              issued.args.transportAttachments, issued.args.transportContents)

SpecSubmit == InitSubmit /\ [][NextSubmit]_vars

\* Logins and submits in any order, the submits over every list of
\* attachments and of direct contents.
NextSession ==
    \/ login
    \/ \E ta \in AttachmentsValues, tc \in ContentsValues :
         submit("Fax", ExampleVars, ta, tc)

SpecSession == Init /\ [][NextSession]_vars

\* Two browse generators of one facade consumed in any interleaving.
NextInterleaved ==
    \/ \E g \in Gens : gen[g].pc = "Idle" /\ browse(g, Some(MaxNItems), FALSE)
    \/ \E g \in Gens : GenFirst(g)
    \/ \E g \in Gens : GenResume(g)
    \/ \E g \in Gens : GenPage(g)

SpecInterleaved == Init /\ [][NextInterleaved]_vars

\* One browse generator, created once and consumed to its end: the caller
\* keeps calling next(), and a next() that is running goes on running.
\* approve stands for the other calls made between two next().
NextConsumed ==
    \/ \E nItems \in NItemsValues, reverse \in BOOLEAN :
         gen[1].pc = "Idle" /\ browse(1, nItems, reverse)
    \/ GenFirst(1)
    \/ GenResume(1)
    \/ GenPage(1)
    \/ approve

SpecConsumed ==
    /\ Init
    /\ [][NextConsumed]_vars
    /\ WF_vars(GenFirst(1) \/ GenResume(1) \/ GenPage(1))

\* ------------------------------------------------------------------ properties
PagingOps == {"QueryNext", "QueryPrevious"}
FirstOps == {"QueryFirst", "QueryLast"}

HasHeader(headers, name) == name \in DOMAIN headers

\* The remote calls generator g issued in the last step.
CallsOf(g) ==
    IF issued.op = "next" /\ issued.gen = g
    THEN {issued.calls[i] : i \in DOMAIN issued.calls} ELSE {}

\* C1: once a login has succeeded, the session, submission and query proxies
\* all hold a SessionHeaderValue whose sessionID is the one the last successful
\* Login returned, whatever was called since (submit, browse and its
\* QueryHeaderValue, browseAttachments, approve, cancel, logout, a failed
\* login), and every remote call of those operations was sent with it.
C1_SameSessionHeader ==
    loginInfo # None =>
        /\ \A s \in Services :
              /\ HasHeader(soapheaders[s], "SessionHeaderValue")
              /\ soapheaders[s]["SessionHeaderValue"].sessionID = loginInfo
        /\ issued.op # "login" =>
              \A i \in DOMAIN issued.calls :
                  /\ HasHeader(issued.calls[i].soapheaders, "SessionHeaderValue")
                  /\ issued.calls[i].soapheaders["SessionHeaderValue"].sessionID = loginInfo

\* A paging call of browse sent after a re-login, with a cursor header attached.
C1_Witness ==
    /\ loginInfo = "s2"
    /\ issued.op = "next"
    /\ \E i \in DOMAIN issued.calls : issued.calls[i].op \in PagingOps
    /\ HasHeader(soapheaders["queryService"], "QueryHeaderValue")

\* C2: every QueryNext/QueryPrevious a browse generator issues carries the
\* queryID that the response to that generator's own first fetch returned
\* (for a generator whose first fetch returned one).
C2_OwnCursorToken ==
    \A g \in Gens : \A c \in CallsOf(g) :
        (c.op \in PagingOps /\ gen[g].firstQueryID \in QueryIDs) =>
            /\ HasHeader(c.soapheaders, "QueryHeaderValue")
            /\ c.soapheaders["QueryHeaderValue"].queryID = gen[g].firstQueryID

\* C3: a generator whose last response reported noMoreItems yields nothing
\* more and issues no further call, and a generator created with a positive
\* nItems never has yielded more than nItems items.
C3_StopsAndCapped ==
    [][\A g \in Gens :
          /\ (gen'[g].nItems # Absent /\ gen'[g].nItems[1] > 0)
                => gen'[g].yielded <= gen'[g].nItems[1]
          /\ (gen[g].result.noMoreItems /\ gen'[g].pc # "Start")
                => /\ gen'[g].yielded = gen[g].yielded
                   /\ ~(issued'.op = "next" /\ issued'.gen = g /\ issued'.calls # <<>>)
      ]_vars

\* A browse with the largest cap that stopped at the cap although the server
\* had more items.
C3_Witness ==
    /\ gen[1].pc = "Exhausted"
    /\ gen[1].nItems = Some(MaxNItems)
    /\ gen[1].yielded = MaxNItems
    /\ ~gen[1].result.noMoreItems

\* C4: the first remote call of a browse is QueryFirst (reverse false) or
\* QueryLast (reverse true); every later call of that browse is QueryNext
\* (reverse false) or QueryPrevious (reverse true); a generator that has
\* passed its first fetch has issued that first call.
C4_FirstThenPaging ==
    \A g \in Gens :
        /\ \A c \in CallsOf(g) :
              /\ c.service = "queryService"
              /\ gen[g].nCalls >= 1
              /\ gen[g].nCalls = 1 =>
                    c.op = (IF gen[g].reverse THEN "QueryLast" ELSE "QueryFirst")
              /\ gen[g].nCalls > 1 =>
                    c.op = (IF gen[g].reverse THEN "QueryPrevious" ELSE "QueryNext")
        /\ gen[g].pc \notin {"Idle", "Start"} => gen[g].nCalls >= 1
        /\ gen[g].pc = "FirstFetched" => gen[g].nCalls = 1

\* A reverse browse issuing QueryPrevious after its QueryLast.
C4_Witness ==
    /\ gen[1].reverse
    /\ gen[1].nCalls > 1
    /\ \E c \in CallsOf(1) : c.op = "QueryPrevious"

\* C5: a browse created without nItems issues one remote call, a QueryFirst
\* or QueryLast, and no QueryNext/QueryPrevious, and yields at most one item.
C5_UnsetNeverPages ==
    \A g \in Gens :
        gen[g].nItems = Absent =>
            /\ gen[g].nCalls <= 1
            /\ gen[g].yielded <= 1
            /\ \A c \in CallsOf(g) : c.op \in FirstOps
            /\ gen[g].pc \in {"FirstFetched", "Exhausted"} => gen[g].nCalls = 1

\* A browse without nItems that ended after one item although the server
\* had not reported noMoreItems.
C5_Witness ==
    /\ gen[1].nItems = Absent
    /\ gen[1].pc = "Exhausted"
    /\ gen[1].yielded = 1
    /\ ~gen[1].result.noMoreItems

\* The Transport a submit passed to SubmitTransport.
Submitted == issued.op = "submit" /\ issued.calls # <<>>
SubmittedTransport == issued.calls[1].arg.values

\* C6: the Transport passed to SubmitTransport has one Var per item of
\* transportVars, in the order of the items, each of type TYPE_STRING with
\* the item's attribute and value.
C6_OneVarPerItem ==
    Submitted =>
        LET tv == issued.args.transportVars
            v == SubmittedTransport.vars
        IN  /\ issued.calls[1].op = "SubmitTransport"
            /\ Len(v) = Len(tv)
            /\ \A i \in 1..Len(tv) :
                  /\ v[i].wsdlType = "Var"
                  /\ v[i].values.attribute = tv[i][1]
                  /\ v[i].values.simpleValue = tv[i][2]
                  /\ v[i].values.type = "TYPE_STRING"

\* A submit of MaxVars variables that reached SubmitTransport.
C6_Witness ==
    /\ Submitted
    /\ Len(issued.args.transportVars) = MaxVars

\* C7: the Transport passed to SubmitTransport has K+M Attachment entries,
\* the K files first in the order given, then the M direct contents in the
\* order given, each holding a WSFile in MODE_INLINED mode with the file's base
\* name or the content's name.
C7_FilesThenContents ==
    Submitted =>
        LET ta == OrEmpty(issued.args.transportAttachments)
            tc == OrEmpty(issued.args.transportContents)
            a == SubmittedTransport.attachments
        IN  /\ Len(a) = Len(ta) + Len(tc)
            /\ \A i \in 1..Len(a) :
                  /\ a[i].wsdlType = "Attachment"
                  /\ a[i].values.sourceAttachment.wsdlType = "WSFile"
                  /\ a[i].values.sourceAttachment.values.mode = "MODE_INLINED"
            /\ \A i \in 1..Len(ta) :
                  a[i].values.sourceAttachment.values.name = ta[i][Len(ta[i])]
            /\ \A i \in 1..Len(tc) :
                  a[Len(ta) + i].values.sourceAttachment.values.name = tc[i].name

\* A submit of two different files and a direct content that reached
\* SubmitTransport.
C7_Witness ==
    /\ Submitted
    /\ Len(OrEmpty(issued.args.transportAttachments)) = 2
    /\ issued.args.transportAttachments[1][1] # issued.args.transportAttachments[1][2]
    /\ Len(OrEmpty(issued.args.transportContents)) >= 1

\* C8: logout issues one remote call, Logout on the session service, and
\* leaves the soapheaders of the three proxies as they were.
C8_LogoutOneCallNoHeaderChange ==
    [][issued'.op = "logout" =>
          /\ soapheaders' = soapheaders
          /\ Len(issued'.calls) = 1
          /\ issued'.calls[1].op = "Logout"
          /\ issued'.calls[1].service = "sessionService"
      ]_vars

\* A logout after a login and a browse: both headers are still attached.
C8_Witness ==
    /\ issued.op = "logout"
    /\ HasHeader(soapheaders["sessionService"], "SessionHeaderValue")
    /\ HasHeader(soapheaders["queryService"], "SessionHeaderValue")
    /\ HasHeader(soapheaders["queryService"], "QueryHeaderValue")

\* C9: of the calls on the query service, QueryNext and QueryPrevious carry a
\* QueryHeaderValue, and QueryFirst, QueryLast, QueryAttachments, Approve and
\* Cancel carry none.
C9_CursorHeaderOnlyOnPaging ==
    \A i \in DOMAIN issued.calls :
        issued.calls[i].service = "queryService" =>
            (HasHeader(issued.calls[i].soapheaders, "QueryHeaderValue")
                <=> issued.calls[i].op \in PagingOps)

\* A browse created with a positive nItems.
Capped(g) == gen[g].nItems # Absent /\ gen[g].nItems[1] > 0
Terminated(g) == gen[g].pc \in {"Exhausted", "Raised"}

\* The generator is in its loop and the last response held no item and did
\* not report noMoreItems.
Stalled(g) ==
    /\ gen[g].pc = "Paging"
    /\ gen[g].result.nTransports = 0
    /\ ~gen[g].result.noMoreItems

\* C10 as claimed: a consumed browse with a positive nItems ends, whatever the
\* server answers.
C10_AlwaysTerminates ==
    \A g \in Gens : (gen[g].pc = "Start" /\ Capped(g)) ~> Terminated(g)

\* C10: a consumed browse with a positive nItems ends, unless from some point
\* on every response holds no item and does not report noMoreItems.
C10_TerminatesUnlessStalled ==
    \A g \in Gens :
        ([]<>~Stalled(g)) => ((gen[g].pc = "Start" /\ Capped(g)) ~> Terminated(g))

\* A browse that ended after a response without items and a later one that
\* reported noMoreItems.
C10_Witness ==
    /\ gen[1].pc = "Exhausted"
    /\ Capped(1)
    /\ gen[1].nCalls > 1
    /\ gen[1].yielded = 0
    /\ gen[1].result.noMoreItems

\* C11: a submit naming a file that cannot be opened raises the local error
\* and issues no remote call, whatever the other attachments and the direct
\* contents are, and leaves the soapheaders of the three proxies as they were.
C11_UnreadableFileSendsNothing ==
    [][(/\ issued'.op = "submit"
        /\ \E i \in 1..Len(OrEmpty(issued'.args.transportAttachments)) :
              OrEmpty(issued'.args.transportAttachments)[i] \notin DOMAIN Files)
          => /\ issued'.raised
             /\ issued'.calls = <<>>
             /\ soapheaders' = soapheaders
      ]_vars

\* A failed submit after a login: a readable file first, the missing file
\* second, and a direct content.
C11_Witness ==
    /\ issued.op = "submit"
    /\ issued.raised
    /\ issued.calls = <<>>
    /\ Len(OrEmpty(issued.args.transportAttachments)) = 2
    /\ OrEmpty(issued.args.transportAttachments)[1] \in DOMAIN Files
    /\ OrEmpty(issued.args.transportAttachments)[2] \notin DOMAIN Files
    /\ Len(OrEmpty(issued.args.transportContents)) >= 1
    /\ HasHeader(soapheaders["submissionService"], "SessionHeaderValue")

\* C12: a login in which GetBindings or Login faults raises and leaves the
\* soapheaders of the three proxies as they were; a login changes a proxy's
\* soapheaders only when both calls were made and it did not raise.
C12_FailedLoginKeepsHeaders ==
    [][issued'.op = "login" =>
          /\ issued'.raised => soapheaders' = soapheaders
          /\ soapheaders' # soapheaders =>
                /\ ~issued'.raised
                /\ Len(issued'.calls) = 2
                /\ issued'.calls[1].op = "GetBindings"
                /\ issued'.calls[2].op = "Login"
      ]_vars

\* A re-login in which Login faulted, on a facade holding a session header
\* and a query cursor header.
C12_Witness ==
    /\ issued.op = "login"
    /\ issued.raised
    /\ Len(issued.calls) = 2
    /\ loginInfo # None
    /\ \A s \in Services :
          /\ HasHeader(soapheaders[s], "SessionHeaderValue")
          /\ soapheaders[s]["SessionHeaderValue"].sessionID = loginInfo
    /\ HasHeader(soapheaders["queryService"], "QueryHeaderValue")

====
